---- MODULE Spec2Model ----
(***************************************************************************)
(* TopTask API: the authentication gate, the account lifecycle handlers    *)
(* and the task handlers, as a state machine over the two collections      *)
(* (users, todos), the clock, the tokens clients hold and the requests in  *)
(* flight.  Strings are sequences of one-character strings, so that the    *)
(* length and character-class rules of the validators are computed.        *)
(***************************************************************************)
EXTENDS Integers, Sequences, FiniteSets, TLC

VARIABLES
  users,        \* the User collection: a sequence of documents, _id = index
  todos,        \* the Todo collection: a sequence of documents, _id = index
  now,          \* the clock, in hours
  issued,       \* the signed tokens the server has handed to clients
  reqs,         \* the requests: in flight, or answered (pc = "done")
  strictQuery,  \* mongoose's strictQuery option, fixed by the build
  createdBy     \* history: the identity each task was created under

vars == <<users, todos, now, issued, reqs, strictQuery, createdBy>>

(* ------------------------------ bounds -------------------------------- *)

\* user records the store may hold
MaxUsers == 2
\* task records ever created
MaxTodos == 2
\* hours the clock advances
MaxTicks == 1
\* signups in flight at once (SpecRace)
MaxReqs == 2
\* tokens the server issues in one behaviour
MaxTokens == 1

(* ------------------------- program constants -------------------------- *)

\* expiresIn: "1h", in hours
AccessTTL == 1
\* setHours(0, 0, 0, 0): a day, in hours
DayLen == 24
\* username .min(3)
UsernameMin == 3
\* username maxlength: 20 (mongoose schema)
UsernameMax == 20
\* password .min(8)
PasswordMin == 8
\* title .max(100)
TitleMax == 100
\* priorityScore max: 10 (mongoose schema)
PriorityMax == 10

\* http-status-codes
OK == 200
CREATED == 201
BAD_REQUEST == 400
UNAUTHORIZED == 401
FORBIDDEN == 403
NOT_FOUND == 404
CONFLICT == 409
INTERNAL_SERVER_ERROR == 500

(* ------------------------------ strings ------------------------------- *)

LowerCh == {"a", "b", "m", "o", "x", "y"}
UpperCh == {"A", "B"}
DigitCh == {"1", "2", "3"}

\* String.prototype.toLowerCase on one character
LowerOf(c) == IF c = "A" THEN "a" ELSE IF c = "B" THEN "b" ELSE c

toLowerCase(s) == [i \in 1..Len(s) |-> LowerOf(s[i])]

Whitespace == {" "}

RECURSIVE trimLeft(_)
trimLeft(s) ==
  IF s # << >> /\ Head(s) \in Whitespace THEN trimLeft(Tail(s)) ELSE s

RECURSIVE trimRight(_)
trimRight(s) ==
  IF s # << >> /\ s[Len(s)] \in Whitespace
  THEN trimRight(SubSeq(s, 1, Len(s) - 1)) ELSE s

\* String.prototype.trim
trim(s) == trimRight(trimLeft(s))

Repeat(c, n) == [i \in 1..n |-> c]

(* --------------------------- user validation -------------------------- *)

\* /^[a-zA-Z0-9_]+$/
usernameRegex(s) ==
  /\ Len(s) >= 1
  /\ \A i \in 1..Len(s) : s[i] \in LowerCh \cup UpperCh \cup DigitCh \cup {"_"}

\* /^[^\s@]+@[^\s@]+\.[^\s@]+$/
emailRegex(s) ==
  \E i \in 1..Len(s), j \in 1..Len(s) :
    /\ s[i] = "@"
    /\ s[j] = "."
    /\ 1 < i
    /\ i + 1 < j
    /\ j < Len(s)
    /\ \A k \in 1..Len(s) : k # i => s[k] \notin Whitespace \cup {"@"}

\* a request body field is absent (undefined) or the empty string
Falsy(body, f) == f \notin DOMAIN body \/ body[f] = << >>

\* userValidationSchema.safeParse: the issues it collects
userValidationIssues(body) ==
  (IF "username" \notin DOMAIN body THEN {"username: Required"}
   ELSE (IF usernameRegex(body.username) THEN {}
         ELSE {"Username can only contain letters, numbers, and underscores"})
        \cup
        (IF Len(body.username) >= UsernameMin THEN {}
         ELSE {"Username must be at least 3 characters long"}))
  \cup
  (IF "email" \notin DOMAIN body THEN {"email: Required"}
   ELSE IF emailRegex(body.email) THEN {} ELSE {"Invalid email address"})
  \cup
  (IF "password" \notin DOMAIN body THEN {"password: Required"}
   ELSE IF Len(body.password) >= PasswordMin THEN {}
        ELSE {"Password must be at least 8 characters long"})

\* userValidationSchema: the parsed data of a body without issues
userValidationData(body) ==
  [username |-> toLowerCase(trim(body.username)),
   email    |-> body.email,
   password |-> body.password]

(* ------------------------------ User model ---------------------------- *)

\* a stored password: the plaintext it derives from and how many times
\* bcrypt.hash was applied to it (0: the plaintext itself)
Plain(p) == [plain |-> p, rounds |-> 0]

\* bcrypt.hash(value, salt)
bcryptHash(pw) == [plain |-> pw.plain, rounds |-> pw.rounds + 1]

\* a comparison that accepts every password
bcryptCompareAny(p, stored) == TRUE

\* bcrypt.compare(password, stored)
bcryptCompare(p, stored) == stored = bcryptHash(Plain(p))

\* userSchema.methods.isPasswordValid
isPasswordValid(user, p) == bcryptCompare(p, user.password)

\* a hook that hashes on every save, without isModified("password")
preSaveAlways(doc, modified) ==
  [doc EXCEPT !.password = bcryptHash(doc.password)]

\* userSchema.pre("save"): hash the password when it was modified
preSave(doc, modified) ==
  IF "password" \in modified
  THEN [doc EXCEPT !.password = bcryptHash(doc.password)]
  ELSE doc

\* the setters of userSchema.username (trim, lowercase), run on documents
\* and on query filters alike
castUsername(s) == toLowerCase(trim(s))

\* userSchema.email: trim
castEmail(s) == trim(s)

\* userSchema validators of username: minlength, maxlength, match
usernameSchemaValid(s) ==
  /\ Len(s) >= UsernameMin
  /\ Len(s) <= UsernameMax
  /\ usernameRegex(s)

UserIds == DOMAIN users

\* a lookup of the username as sent, the setters not applied
findByUsernameRaw(s) ==
  LET hit == {i \in UserIds : users[i].username = s}
  IN  IF hit = {} THEN 0 ELSE CHOOSE i \in hit : TRUE

\* User.findOne({ username }): 0 when no document matches
findByUsername(s) ==
  LET hit == {i \in UserIds : users[i].username = castUsername(s)}
  IN  IF hit = {} THEN 0 ELSE CHOOSE i \in hit : TRUE

\* User.findOne({ email })
findByEmail(s) ==
  LET hit == {i \in UserIds : users[i].email = castEmail(s)}
  IN  IF hit = {} THEN 0 ELSE CHOOSE i \in hit : TRUE

\* a collection without the unique indexes
uniqueIndexOff(doc) == TRUE

\* the unique indexes of username and email (unique: true): a write that
\* would duplicate a key fails with E11000
uniqueIndexAllows(doc) ==
  \A i \in UserIds : users[i].username # doc.username /\ users[i].email # doc.email

(* --------------------------- todo validation -------------------------- *)

\* new Date(arg): the time of an ISO date string, NaN (Invalid Date) for
\* undefined and for any other string
NaN == [nan |-> TRUE]

DateOf(body) ==
  IF "dueDate" \in DOMAIN body /\ body.dueDate.kind = "iso"
  THEN [nan |-> FALSE, t |-> body.dueDate.t]
  ELSE NaN

\* todoValidationSchema.safeParse: the issues it collects
todoValidationIssues(body) ==
  (IF "title" \notin DOMAIN body THEN {"title: Required"}
   ELSE (IF Len(body.title) >= 1 THEN {} ELSE {"Title is required"})
        \cup
        (IF Len(body.title) <= TitleMax THEN {}
         ELSE {"Title must be 100 characters or less"}))
  \cup
  (IF "description" \notin DOMAIN body THEN {"description: Required"}
   ELSE IF Len(body.description) >= 1 THEN {} ELSE {"Description is required"})
  \cup
  (IF DateOf(body) = NaN THEN {"Invalid date"} ELSE {})

\* todoValidationSchema: the parsed data, defaults filled in, keys that
\* the schema does not name (such as completed) stripped
todoValidationData(body) ==
  [title         |-> body.title,
   description   |-> body.description,
   dueDate       |-> DateOf(body).t,
   isCompleted   |-> IF "isCompleted" \in DOMAIN body THEN body.isCompleted ELSE FALSE,
   priorityScore |-> IF "priorityScore" \in DOMAIN body THEN body.priorityScore ELSE 0,
   estimatedTime |-> IF "estimatedTime" \in DOMAIN body THEN body.estimatedTime ELSE 0,
   tags          |-> IF "tags" \in DOMAIN body THEN body.tags ELSE << >>]

(* ------------------------------ Todo model ---------------------------- *)

\* new Todo(data): the paths of todoSchema only (isCompleted is not one),
\* completed at its default
newTodo(data) ==
  [alive         |-> TRUE,
   title         |-> data.title,
   description   |-> data.description,
   dueDate       |-> data.dueDate,
   completed     |-> FALSE,
   priorityScore |-> data.priorityScore,
   estimatedTime |-> data.estimatedTime,
   tags          |-> data.tags]

\* todoSchema validators, run by create and save: priorityScore min 0, max 10
todoSchemaValid(doc) ==
  doc.priorityScore >= 0 /\ doc.priorityScore <= PriorityMax

\* an update that writes isCompleted of the data to completed
applyUpdateCompleted(doc, data) ==
  [doc EXCEPT !.title = data.title,
              !.description = data.description,
              !.dueDate = data.dueDate,
              !.completed = data.isCompleted,
              !.priorityScore = data.priorityScore,
              !.estimatedTime = data.estimatedTime,
              !.tags = data.tags]

\* the update of findByIdAndUpdate(id, data): the paths of todoSchema that
\* data names are set, no validator runs
applyUpdate(doc, data) ==
  [doc EXCEPT !.title = data.title,
              !.description = data.description,
              !.dueDate = data.dueDate,
              !.priorityScore = data.priorityScore,
              !.estimatedTime = data.estimatedTime,
              !.tags = data.tags]

TodoIds == {i \in DOMAIN todos : todos[i].alive}

\* new Date(today.setHours(0, 0, 0, 0))
startOfToday == now - (now % DayLen)

\* populate("todos") with no filter on the references: every task there is
populateAll(u) ==
  SelectSeq([i \in 1..Len(todos) |-> i], LAMBDA i : i \in TodoIds)

\* populate("todos"): the documents the user's todos refer to that exist,
\* in the order of the references
populate(u) ==
  SelectSeq(users[u].todos, LAMBDA i : i \in TodoIds)

\* a filter on a path todoSchema does not have: dropped from the filter
\* under strictQuery, and otherwise matched against documents none of
\* which has the path
unknownPath == strictQuery

\* getTodayTasks: match createdAt in today's range (todoSchema keeps no
\* timestamps) and completed: false
todayTasks(u) ==
  SelectSeq(populate(u), LAMBDA i : unknownPath /\ ~todos[i].completed)

\* getAllDoneTasks: match completed: true
doneTasks(u) ==
  SelectSeq(populate(u), LAMBDA i : todos[i].completed)

\* getUpcommingTasks: match dueDate < startOfToday and isCompleted: false
upcomingTasks(u) ==
  SelectSeq(populate(u), LAMBDA i : todos[i].dueDate < startOfToday /\ unknownPath)

\* getOverdueTasks: populate all, then filter in memory
overdueTasks(u) ==
  SelectSeq(populate(u),
            LAMBDA i : todos[i].dueDate < startOfToday /\ ~todos[i].completed)

(* -------------------------------- tokens ------------------------------ *)

NoToken == [id |-> 0, exp |-> 0, sig |-> "none"]

\* jwt.sign({ id }, JWT_SECRET, { expiresIn: "1h" })
jwtSign(id, t) == [id |-> id, exp |-> t + AccessTTL, sig |-> "good"]

\* a verification of the signature alone
jwtVerifyNoExpiry(token, t) == token.sig = "good"

\* jwt.verify: the signature, then the expiry against the clock
jwtVerify(token, t) == token.sig = "good" /\ t < token.exp

\* process.env.JWT_SECRET is configured in every deployment considered
JWT_SECRET == TRUE

\* the subject of a signed token whose user was deleted from the store
\* (users are deleted only by hand, outside the API)
DeletedUserId == MaxUsers + 1

\* a gate without the missing-token check: the absent token goes to
\* jwt.verify
authenticateNoTokenCheck(token) ==
  IF ~jwtVerify(token, now)
  THEN [status |-> UNAUTHORIZED, message |-> "Invalid token", user |-> 0]
  ELSE IF token.id \notin UserIds
  THEN [status |-> UNAUTHORIZED, message |-> "User not found", user |-> 0]
  ELSE [status |-> OK, message |-> "next", user |-> token.id]

\* a gate that resolves the user by User.findOne({}) and not by the subject
authenticateFirstUser(token) ==
  IF token.sig = "none"
  THEN [status |-> FORBIDDEN, message |-> "No token provided", user |-> 0]
  ELSE IF ~jwtVerify(token, now)
  THEN [status |-> UNAUTHORIZED, message |-> "Invalid token", user |-> 0]
  ELSE IF UserIds = {}
  THEN [status |-> UNAUTHORIZED, message |-> "User not found", user |-> 0]
  ELSE [status |-> OK, message |-> "next", user |-> 1]

\* a gate that also requires the token to be the one stored on its user
authenticateStoredToken(token) ==
  IF token.sig = "none"
  THEN [status |-> FORBIDDEN, message |-> "No token provided", user |-> 0]
  ELSE IF ~jwtVerify(token, now)
  THEN [status |-> UNAUTHORIZED, message |-> "Invalid token", user |-> 0]
  ELSE IF token.id \notin UserIds
  THEN [status |-> UNAUTHORIZED, message |-> "User not found", user |-> 0]
  ELSE IF users[token.id].accessToken # token
  THEN [status |-> UNAUTHORIZED, message |-> "Invalid token", user |-> 0]
  ELSE [status |-> OK, message |-> "next", user |-> token.id]

\* authenticate: the outcome of the gate for the token a request carries
authenticate(token) ==
  IF token.sig = "none"
  THEN [status |-> FORBIDDEN, message |-> "No token provided", user |-> 0]
  ELSE IF ~JWT_SECRET
  THEN [status |-> INTERNAL_SERVER_ERROR, message |-> "JWT SECRET is not defined", user |-> 0]
  ELSE IF ~jwtVerify(token, now)
  THEN [status |-> UNAUTHORIZED, message |-> "Invalid token", user |-> 0]
  ELSE IF token.id \notin UserIds
  THEN [status |-> UNAUTHORIZED, message |-> "User not found", user |-> 0]
  ELSE [status |-> OK, message |-> "next", user |-> token.id]

\* a gate that records the verified token on the user it resolves
authenticateStoreToken(token) ==
  IF jwtVerify(token, now) /\ token.id \in UserIds
  THEN [users EXCEPT ![token.id].accessToken = token]
  ELSE users

\* what authenticate writes to the User collection: nothing
authenticateStore(token) == users

(* ------------------------------ requests ------------------------------ *)

Slots == DOMAIN reqs

NoUser == 0

Idle ==
  [pc |-> "idle", route |-> "", token |-> NoToken, user |-> NoUser,
   body |-> << >>, status |-> 0, message |-> "", out |-> << >>]

OpenRoutes == {"signup", "login"}
AccountRoutes == {"logout", "passwordReset", "refreshToken"}
TodoRoutes ==
  {"createTask", "today", "done", "upcoming", "overdue", "markDone",
   "update", "delete"}
ProtectedRoutes == AccountRoutes \cup TodoRoutes

\* a token with a signature the server did not make, naming any subject
Forged(id) == [id |-> id, exp |-> now + AccessTTL, sig |-> "bad"]

\* what a client can send as its token: nothing, a forgery, or a token the
\* server issued
Presentable == {NoToken} \cup {Forged(id) : id \in 1..MaxUsers} \cup issued

\* ResponseHandler.success: res.status(status).json({ success: true, ... })
ResponseHandlerSuccess(data, message, status) ==
  [http |-> status, success |-> TRUE, status |-> status, message |-> message,
   data |-> data]

\* an error formatter that sends the status of the error and writes a fixed
\* one in the body
ResponseHandlerErrorFixed(message, status, errors) ==
  [http |-> status, success |-> FALSE, status |-> INTERNAL_SERVER_ERROR,
   message |-> message, errors |-> errors]

\* ResponseHandler.error: res.status(status).json({ success: false, ... })
ResponseHandlerError(message, status, errors) ==
  [http |-> status, success |-> FALSE, status |-> status, message |-> message,
   errors |-> errors]

\* ResponseHandler.success / the error-handling middleware: the response
\* of request s, which ends it
respond(s, body, status, message, out) ==
  reqs' = [reqs EXCEPT ![s] =
             [pc |-> "done", route |-> reqs[s].route, token |-> reqs[s].token,
              user |-> reqs[s].user, body |-> body, status |-> status,
              message |-> message, out |-> out]]

\* a request arrives: a protected route runs authenticate first
Receive(s, route) ==
  /\ reqs[s].pc \in {"idle", "done"}
  /\ \E token \in (IF route \in ProtectedRoutes THEN Presentable ELSE {NoToken}) :
       reqs' = [reqs EXCEPT ![s] =
                  [Idle EXCEPT !.pc = IF route \in ProtectedRoutes
                                      THEN "gate" ELSE "handler",
                               !.route = route,
                               !.token = token]]
  /\ UNCHANGED <<users, todos, now, issued, strictQuery, createdBy>>

\* authenticate: attach the user and call next(), or next(error)
Authenticate(s) ==
  /\ reqs[s].pc = "gate"
  /\ LET g == authenticate(reqs[s].token)
     IN  /\ users' = authenticateStore(reqs[s].token)
         /\ IF g.status = OK
            THEN reqs' = [reqs EXCEPT ![s].pc = "handler", ![s].user = g.user]
            ELSE respond(s, << >>, g.status, g.message, << >>)
  /\ UNCHANGED <<todos, now, issued, strictQuery, createdBy>>

\* the clock advances by an hour
Tick ==
  /\ now - DayLen < MaxTicks
  /\ now' = now + 1
  /\ UNCHANGED <<users, todos, issued, reqs, strictQuery, createdBy>>

(* ------------------------------- signup ------------------------------- *)

S_bob == <<"b", "o", "b">>
S_Bob == <<"B", "o", "b">>
S_amy == <<"a", "m", "y">>
E_bob == <<"b", "@", "x", ".", "y">>
E_amy == <<"a", "@", "x", ".", "y">>
P_one == <<"p", "a", "s", "s", "w", "o", "r", "1">>
P_two == <<"p", "a", "s", "s", "w", "o", "r", "2">>

SignupBodies ==
  { [username |-> u, email |-> e, password |-> P_one] :
      u \in {S_bob, S_Bob, S_amy}, e \in {E_bob, E_amy} }
  \cup
  { [email |-> E_bob, password |-> P_one],
    [username |-> S_bob, password |-> P_one],
    [username |-> S_bob, email |-> E_bob],
    [username |-> << >>, email |-> << >>, password |-> << >>],
    [username |-> <<"a", "b">>, email |-> E_bob, password |-> P_one],
    [username |-> <<"b", " ", "b">>, email |-> E_bob, password |-> P_one],
    [username |-> Repeat("a", UsernameMax + 1), email |-> E_bob, password |-> P_one],
    [username |-> S_bob, email |-> <<"b", "x", ".", "y">>, password |-> P_one],
    [username |-> S_bob, email |-> <<"b", "@", "x", "y">>, password |-> P_one],
    [username |-> S_bob, email |-> E_bob, password |-> <<"1", "2", "3">>] }

\* new User(validatedData): the setters of the schema applied
newUser(data) ==
  [username     |-> castUsername(data.username),
   email        |-> castEmail(data.email),
   password     |-> Plain(data.password),
   accessToken  |-> NoToken,
   refreshToken |-> NoToken,
   todos        |-> << >>]

\* userSignUp, to its first query: the required fields, the schema, then
\* User.findOne({ username })
SignupCheck(s, body) ==
  /\ reqs[s].pc = "handler"
  /\ reqs[s].route = "signup"
  /\ IF Falsy(body, "username") \/ Falsy(body, "email") \/ Falsy(body, "password")
     THEN respond(s, body, NOT_FOUND, "Username, Email and password are required", << >>)
     ELSE IF userValidationIssues(body) # {}
     THEN respond(s, body, BAD_REQUEST, "Validation error",
                  [errors |-> userValidationIssues(body)])
     ELSE IF findByUsername(body.username) # 0
     THEN respond(s, body, CONFLICT, "Username is already in use", << >>)
     ELSE /\ Len(users) < MaxUsers
          /\ reqs' = [reqs EXCEPT ![s].pc = "signupEmail", ![s].body = body]
  /\ UNCHANGED <<users, todos, now, issued, strictQuery, createdBy>>

\* userSignUp: User.findOne({ email })
SignupFindEmail(s) ==
  /\ reqs[s].pc = "signupEmail"
  /\ IF findByEmail(reqs[s].body.email) # 0
     THEN respond(s, reqs[s].body, CONFLICT, "Email is already in use", << >>)
     ELSE reqs' = [reqs EXCEPT ![s].pc = "signupSave"]
  /\ UNCHANGED <<users, todos, now, issued, strictQuery, createdBy>>

\* userSignUp: newUser.save() (validate, pre-save hook, insert) and the
\* response
SignupSave(s) ==
  /\ reqs[s].pc = "signupSave"
  /\ LET body == reqs[s].body
         doc  == newUser(userValidationData(body))
     IN  IF ~usernameSchemaValid(doc.username) \/ ~uniqueIndexAllows(doc)
         THEN /\ respond(s, body, INTERNAL_SERVER_ERROR, "Internal Server Error", << >>)
              /\ UNCHANGED users
         ELSE /\ Len(users) < MaxUsers
              /\ users' = Append(users, preSave(doc, {"username", "email", "password"}))
              /\ respond(s, body, OK, "success",
                         [user |-> [id |-> Len(users) + 1, email |-> doc.email,
                                    name |-> doc.username]])
  /\ UNCHANGED <<todos, now, issued, strictQuery, createdBy>>

(* -------------------------------- login ------------------------------- *)

LoginBodies ==
  { [username |-> u, password |-> p] :
      u \in {S_bob, S_Bob, S_amy, << >>}, p \in {P_one, P_two, << >>} }
  \cup { [username |-> S_bob], [password |-> P_one] }

\* userLogin
Login(s, body) ==
  /\ reqs[s].pc = "handler"
  /\ reqs[s].route = "login"
  /\ IF ~JWT_SECRET
     THEN /\ respond(s, body, INTERNAL_SERVER_ERROR, "Internal Server Error", << >>)
          /\ UNCHANGED issued
     ELSE IF Falsy(body, "username") \/ Falsy(body, "password")
     THEN /\ respond(s, body, NOT_FOUND, "Email and password are requried", << >>)
          /\ UNCHANGED issued
     ELSE IF findByUsername(body.username) = 0
     THEN /\ respond(s, body, NOT_FOUND, "user not found", << >>)
          /\ UNCHANGED issued
     ELSE IF ~isPasswordValid(users[findByUsername(body.username)], body.password)
     THEN /\ respond(s, body, UNAUTHORIZED, "Unauthorized", << >>)
          /\ UNCHANGED issued
     ELSE LET u == findByUsername(body.username)
              token == jwtSign(u, now)
          IN  /\ Cardinality(issued \cup {token}) <= MaxTokens + 1
              /\ issued' = issued \cup {token}
              /\ respond(s, body, OK, "success",
                         [userInfo |-> [id |-> u, email |-> users[u].email,
                                        name |-> users[u].username],
                          token |-> token])
  /\ UNCHANGED <<users, todos, now, strictQuery, createdBy>>

(* ------------------------- logout, password reset --------------------- *)

\* the paths a save writes: those whose value was changed
modifiedPaths(old, new) ==
  {f \in DOMAIN new : new[f] # old[f]}

\* a save that is never made: the document changed in memory only
saveUserSkip(u, doc) == users

\* userModel.save(): the pre-save hook, then the modified paths written
saveUser(u, doc) ==
  [users EXCEPT ![u] = preSave(doc, modifiedPaths(users[u], doc))]

\* a logout that assigns the password it read back to the document, which
\* marks the path modified
LogoutTouchPassword(s) ==
  /\ reqs[s].pc = "handler"
  /\ reqs[s].route = "logout"
  /\ LET u == reqs[s].user
     IN  /\ users' = [users EXCEPT ![u] =
                        preSave([users[u] EXCEPT !.accessToken = NoToken,
                                                 !.refreshToken = NoToken],
                                {"password"})]
         /\ respond(s, << >>, OK, "success", [message |-> "Logout successful"])
  /\ UNCHANGED <<todos, now, issued, strictQuery, createdBy>>

\* userLogout
Logout(s) ==
  /\ reqs[s].pc = "handler"
  /\ reqs[s].route = "logout"
  /\ LET u == reqs[s].user
     IN  /\ users' = saveUser(u, [users[u] EXCEPT !.accessToken = NoToken,
                                                  !.refreshToken = NoToken])
         /\ respond(s, << >>, OK, "success", [message |-> "Logout successful"])
  /\ UNCHANGED <<todos, now, issued, strictQuery, createdBy>>

ResetBodies ==
  { [oldPassword |-> o, newPassword |-> n] :
      o \in {P_one, P_two, << >>}, n \in {P_one, P_two, << >>} }
  \cup { [oldPassword |-> P_one], [newPassword |-> P_two] }

\* passwordReset: an ApiError thrown inside the try block is caught there
\* and replaced by the 500 of the catch block
PasswordReset(s, body) ==
  /\ reqs[s].pc = "handler"
  /\ reqs[s].route = "passwordReset"
  /\ LET u == reqs[s].user
     IN  IF ~JWT_SECRET
         THEN /\ respond(s, body, INTERNAL_SERVER_ERROR, "Internal Server Error", << >>)
              /\ UNCHANGED users
         ELSE IF Falsy(body, "oldPassword") \/ Falsy(body, "newPassword")
         THEN /\ respond(s, body, BAD_REQUEST,
                         "old password, and new password are required", << >>)
              /\ UNCHANGED users
         ELSE IF ~isPasswordValid(users[u], body.oldPassword)
         THEN /\ respond(s, body, INTERNAL_SERVER_ERROR, "Failed to reset password", << >>)
              /\ UNCHANGED users
         ELSE /\ users' = saveUser(u, [users[u] EXCEPT
                                         !.password = Plain(body.newPassword)])
              /\ respond(s, body, OK, "success",
                         [message |-> "Password reset successful"])
  /\ UNCHANGED <<todos, now, issued, strictQuery, createdBy>>

(* ----------------------------- refresh token -------------------------- *)

\* a decode that yields the subject of a token with a good signature only
jwtDecodeVerified(token) == IF token.sig = "good" THEN token.id ELSE 0

\* jwt.decode: the payload of any well-formed token, nothing verified
jwtDecode(token) == token.id

\* a refresh that issues the new token for the user the gate attached
RefreshTokenForCaller(s, token) ==
  /\ reqs[s].pc = "handler"
  /\ reqs[s].route = "refreshToken"
  /\ IF token = NoToken
     THEN /\ respond(s, [token |-> token], BAD_REQUEST, "Refresh token is required", << >>)
          /\ UNCHANGED issued
     ELSE IF jwtDecode(token) \notin UserIds
     THEN /\ respond(s, [token |-> token], UNAUTHORIZED, "Invalid or expired token", << >>)
          /\ UNCHANGED issued
     ELSE LET newToken == jwtSign(reqs[s].user, now)
          IN  /\ Cardinality(issued \cup {newToken}) <= MaxTokens + 1
              /\ issued' = issued \cup {newToken}
              /\ respond(s, [token |-> token], OK, "success", [token |-> newToken])
  /\ UNCHANGED <<users, todos, now, strictQuery, createdBy>>

\* refreshToken: generateAccessToken sets accessToken on the document in
\* memory, which is never saved
RefreshToken(s, token) ==
  /\ reqs[s].pc = "handler"
  /\ reqs[s].route = "refreshToken"
  /\ IF token = NoToken
     THEN /\ respond(s, [token |-> token], BAD_REQUEST, "Refresh token is required", << >>)
          /\ UNCHANGED issued
     ELSE IF jwtDecode(token) \notin UserIds
     THEN /\ respond(s, [token |-> token], UNAUTHORIZED, "Invalid or expired token", << >>)
          /\ UNCHANGED issued
     ELSE LET newToken == jwtSign(jwtDecode(token), now)
          IN  /\ Cardinality(issued \cup {newToken}) <= MaxTokens + 1
              /\ issued' = issued \cup {newToken}
              /\ respond(s, [token |-> token], OK, "success", [token |-> newToken])
  /\ UNCHANGED <<users, todos, now, strictQuery, createdBy>>

(* ------------------------------ task create --------------------------- *)

T_one == <<"T">>
D_one == <<"D">>
Iso(t) == [kind |-> "iso", t |-> t]
Garbage == [kind |-> "text", t |-> 0]

\* due yesterday, one hour before the first midnight of the model
DueEarly == DayLen - 1
\* due at that midnight
DueLater == DayLen

TodoBodies ==
  { [title |-> T_one, description |-> D_one, dueDate |-> Iso(DueEarly)],
    [title |-> T_one, description |-> D_one, dueDate |-> Iso(DueEarly),
     isCompleted |-> TRUE, completed |-> TRUE],
    [title |-> T_one, description |-> D_one, dueDate |-> Iso(DueLater),
     priorityScore |-> PriorityMax + 5],
    [description |-> D_one, dueDate |-> Iso(DueEarly)],
    [title |-> << >>, description |-> D_one, dueDate |-> Iso(DueEarly)],
    [title |-> Repeat("t", TitleMax + 1), description |-> D_one, dueDate |-> Iso(DueEarly)],
    [title |-> T_one, dueDate |-> Iso(DueEarly)],
    [title |-> T_one, description |-> << >>, dueDate |-> Iso(DueEarly)],
    [title |-> T_one, description |-> D_one],
    [title |-> T_one, description |-> D_one, dueDate |-> Garbage] }

\* Array.prototype.unshift in the place of push
unshiftTodo(list, id) == <<id>> \o list

\* userModel.todos.push(todo._id)
pushTodo(list, id) == Append(list, id)

\* createTask: Todo.create, then the id pushed on the owner's todos and the
\* owner saved
CreateTask(s, body) ==
  /\ reqs[s].pc = "handler"
  /\ reqs[s].route = "createTask"
  /\ LET u == reqs[s].user
     IN  IF todoValidationIssues(body) # {}
         THEN /\ respond(s, body, BAD_REQUEST, "Invalid input data",
                         [errors |-> todoValidationIssues(body)])
              /\ UNCHANGED <<users, todos, createdBy>>
         ELSE IF ~todoSchemaValid(newTodo(todoValidationData(body)))
         THEN /\ respond(s, body, INTERNAL_SERVER_ERROR, "Failed to create todo", << >>)
              /\ UNCHANGED <<users, todos, createdBy>>
         ELSE /\ Len(todos) < MaxTodos
              /\ todos' = Append(todos, newTodo(todoValidationData(body)))
              /\ createdBy' = Append(createdBy, u)
              /\ users' = saveUser(u, [users[u] EXCEPT
                                         !.todos = pushTodo(@, Len(todos) + 1)])
              /\ respond(s, body, OK, "success",
                         [id |-> Len(todos) + 1,
                          todo |-> newTodo(todoValidationData(body))])
  /\ UNCHANGED <<now, issued, strictQuery>>

(* --------------------------- specification ---------------------------- *)

\* what was sent for an answered request: handlers call
\* ResponseHandler.success with its default status; every error reaches the
\* error-handling middleware, which calls ResponseHandler.error with the
\* status, message and errors of the error
envelope(s) ==
  IF reqs[s].status = OK
  THEN ResponseHandlerSuccess(reqs[s].out, reqs[s].message, reqs[s].status)
  ELSE ResponseHandlerError(reqs[s].message, reqs[s].status,
                            IF "errors" \in DOMAIN reqs[s].out
                            THEN reqs[s].out.errors ELSE {})

\* The account specification: an empty store, requests served one at a
\* time, each in its steps (gate, handler, the awaits of signup), the clock
\* free to advance between them.  None of its handlers reads strictQuery.
Init ==
  /\ users = << >>
  /\ todos = << >>
  /\ createdBy = << >>
  /\ now = DayLen
  /\ issued = {jwtSign(DeletedUserId, DayLen)}
  /\ strictQuery = FALSE
  /\ reqs = <<Idle>>

\* the task bodies the account specification creates tasks from
AccountTodoBodies ==
  { [title |-> T_one, description |-> D_one, dueDate |-> Iso(DueEarly)],
    [title |-> T_one, description |-> D_one, dueDate |-> Garbage] }

ReceiveAccount ==
  \E s \in Slots :
    \E route \in OpenRoutes \cup AccountRoutes \cup {"createTask"} : Receive(s, route)

Next ==
  \/ Tick
  \/ ReceiveAccount
  \/ \E s \in Slots : Authenticate(s)
  \/ \E s \in Slots : \E body \in SignupBodies : SignupCheck(s, body)
  \/ \E s \in Slots : SignupFindEmail(s)
  \/ \E s \in Slots : SignupSave(s)
  \/ \E s \in Slots : \E body \in LoginBodies : Login(s, body)
  \/ \E s \in Slots : Logout(s)
  \/ \E s \in Slots : \E body \in ResetBodies : PasswordReset(s, body)
  \/ \E s \in Slots : \E token \in Presentable : RefreshToken(s, token)
  \/ \E s \in Slots : \E body \in AccountTodoBodies : CreateTask(s, body)

Spec == Init /\ [][Next]_vars

\* the steps that serve a request in flight: the gate, the handlers and the
\* continuations of their awaits
Serve ==
  \/ \E s \in Slots : Authenticate(s)
  \/ \E s \in Slots : \E body \in SignupBodies : SignupCheck(s, body)
  \/ \E s \in Slots : SignupFindEmail(s)
  \/ \E s \in Slots : SignupSave(s)
  \/ \E s \in Slots : \E body \in LoginBodies : Login(s, body)
  \/ \E s \in Slots : Logout(s)
  \/ \E s \in Slots : \E body \in ResetBodies : PasswordReset(s, body)
  \/ \E s \in Slots : \E token \in Presentable : RefreshToken(s, token)
  \/ \E s \in Slots : \E body \in AccountTodoBodies : CreateTask(s, body)

\* The account specification with the event loop's guarantee: a callback
\* that is ready to run is run.
SpecLive == Spec /\ WF_vars(Serve)

\* The account specification within one hour: the same requests and steps,
\* the clock held at the first midnight.
NextServe ==
  \/ ReceiveAccount
  \/ Serve

SpecServe == Init /\ [][NextServe]_vars

(* ----------------------- task queries and updates --------------------- *)

\* getTodayTasks, getAllDoneTasks, getUpcommingTasks, getOverdueTasks: the
\* ids of the tasks returned, in order
bucket(route, u) ==
  CASE route = "today"    -> todayTasks(u)
    [] route = "done"     -> doneTasks(u)
    [] route = "upcoming" -> upcomingTasks(u)
    [] route = "overdue"  -> overdueTasks(u)

BucketRoutes == {"today", "done", "upcoming", "overdue"}

GetTasks(s) ==
  /\ reqs[s].pc = "handler"
  /\ reqs[s].route \in BucketRoutes
  /\ respond(s, << >>, OK, "success",
             [todos |-> bucket(reqs[s].route, reqs[s].user)])
  /\ UNCHANGED <<users, todos, now, issued, strictQuery, createdBy>>

\* the ids a client may name: those of the tasks there can be
AnyTodoId == 1..MaxTodos

\* Todo.findOneAndUpdate({ _id: id, user: user.id }, ...): todoSchema has
\* no path user
findOwned(id, u) ==
  IF id \in TodoIds /\ unknownPath THEN id ELSE 0

\* markAsDoneById: the 404 thrown inside the try block is replaced by the
\* 500 of its catch block
MarkAsDone(s, id) ==
  /\ reqs[s].pc = "handler"
  /\ reqs[s].route = "markDone"
  /\ IF findOwned(id, reqs[s].user) = 0
     THEN /\ respond(s, [id |-> id], INTERNAL_SERVER_ERROR,
                     "Failed to mark todo as complete", << >>)
          /\ UNCHANGED todos
     ELSE /\ todos' = [todos EXCEPT ![id].completed = TRUE]
          /\ respond(s, [id |-> id], OK, "success",
                     [message |-> "Todo marked as complete"])
  /\ UNCHANGED <<users, now, issued, strictQuery, createdBy>>

\* updateTaskById: Todo.findByIdAndUpdate(id, data, { new: true })
UpdateTask(s, id, body) ==
  /\ reqs[s].pc = "handler"
  /\ reqs[s].route = "update"
  /\ IF todoValidationIssues(body) # {} \/ id \notin TodoIds
     THEN /\ respond(s, [id |-> id, body |-> body], INTERNAL_SERVER_ERROR,
                     "Failed to update todo", << >>)
          /\ UNCHANGED todos
     ELSE /\ todos' = [todos EXCEPT ![id] = applyUpdate(@, todoValidationData(body))]
          /\ respond(s, [id |-> id, body |-> body], OK, "success",
                     [id |-> id, todo |-> applyUpdate(todos[id], todoValidationData(body))])
  /\ UNCHANGED <<users, now, issued, strictQuery, createdBy>>

\* the place of a deleted document: its id is not reused and nothing of its
\* content is left
deletedTodo ==
  [alive         |-> FALSE,
   title         |-> << >>,
   description   |-> << >>,
   dueDate       |-> 0,
   completed     |-> FALSE,
   priorityScore |-> 0,
   estimatedTime |-> 0,
   tags          |-> << >>]

\* a delete that also takes the id out of the todos of every user
DeleteTaskCascade(s, id) ==
  /\ reqs[s].pc = "handler"
  /\ reqs[s].route = "delete"
  /\ IF id \notin TodoIds
     THEN /\ respond(s, [id |-> id], INTERNAL_SERVER_ERROR, "Failed to delete todo", << >>)
          /\ UNCHANGED <<users, todos>>
     ELSE /\ todos' = [todos EXCEPT ![id] = deletedTodo]
          /\ users' = [u \in UserIds |->
                         [users[u] EXCEPT !.todos = SelectSeq(@, LAMBDA i : i # id)]]
          /\ respond(s, [id |-> id], OK, "success",
                     [message |-> "Todo deleted successfully"])
  /\ UNCHANGED <<now, issued, strictQuery, createdBy>>

\* a delete that removes a task only for the user who created it
DeleteTaskOwned(s, id) ==
  /\ reqs[s].pc = "handler"
  /\ reqs[s].route = "delete"
  /\ IF id \notin TodoIds \/ createdBy[id] # reqs[s].user
     THEN /\ respond(s, [id |-> id], INTERNAL_SERVER_ERROR, "Failed to delete todo", << >>)
          /\ UNCHANGED todos
     ELSE /\ todos' = [todos EXCEPT ![id] = deletedTodo]
          /\ respond(s, [id |-> id], OK, "success",
                     [message |-> "Todo deleted successfully"])
  /\ UNCHANGED <<users, now, issued, strictQuery, createdBy>>

\* deleteTaskById: Todo.findByIdAndDelete(id)
DeleteTask(s, id) ==
  /\ reqs[s].pc = "handler"
  /\ reqs[s].route = "delete"
  /\ IF id \notin TodoIds
     THEN /\ respond(s, [id |-> id], INTERNAL_SERVER_ERROR, "Failed to delete todo", << >>)
          /\ UNCHANGED todos
     ELSE /\ todos' = [todos EXCEPT ![id] = deletedTodo]
          /\ respond(s, [id |-> id], OK, "success",
                     [message |-> "Todo deleted successfully"])
  /\ UNCHANGED <<users, now, issued, strictQuery, createdBy>>

\* The task specification: two registered users, each holding the token of
\* a login at the first midnight, work on tasks, one request at a time,
\* within the hour of that login (the expiry of tokens is the matter of the
\* account specification).
RegisteredUser(name, email) ==
  preSave(newUser([username |-> name, email |-> email, password |-> P_one]),
          {"username", "email", "password"})

InitTasks ==
  /\ users = <<RegisteredUser(S_bob, E_bob), RegisteredUser(S_amy, E_amy)>>
  /\ todos = << >>
  /\ createdBy = << >>
  /\ now = DayLen
  /\ issued = {jwtSign(1, DayLen), jwtSign(2, DayLen), jwtSign(DeletedUserId, DayLen)}
  /\ strictQuery \in BOOLEAN
  /\ reqs = <<Idle>>

ReceiveTodo ==
  \E s \in Slots : \E route \in TodoRoutes : Receive(s, route)

NextTasks ==
  \/ ReceiveTodo
  \/ \E s \in Slots : Authenticate(s)
  \/ \E s \in Slots : \E body \in TodoBodies : CreateTask(s, body)
  \/ \E s \in Slots : GetTasks(s)
  \/ \E s \in Slots : \E id \in AnyTodoId : MarkAsDone(s, id)
  \/ \E s \in Slots : \E id \in AnyTodoId : \E body \in TodoBodies : UpdateTask(s, id, body)
  \/ \E s \in Slots : \E id \in AnyTodoId : DeleteTask(s, id)

SpecTasks == InitTasks /\ [][NextTasks]_vars

\* The signup race: MaxReqs signups in flight, interleaved at their awaits.
InitRace ==
  /\ users = << >>
  /\ todos = << >>
  /\ createdBy = << >>
  /\ now = DayLen
  /\ issued = {jwtSign(DeletedUserId, DayLen)}
  /\ strictQuery = FALSE
  /\ reqs = [s \in 1..MaxReqs |-> Idle]

ReceiveSignup == \E s \in Slots : Receive(s, "signup")

NextRace ==
  \/ ReceiveSignup
  \/ \E s \in Slots : \E body \in SignupBodies : SignupCheck(s, body)
  \/ \E s \in Slots : SignupFindEmail(s)
  \/ \E s \in Slots : SignupSave(s)

SpecRace == InitRace /\ [][NextRace]_vars

\* The logout specification: two registered users holding tokens, MaxReqs
\* logout requests in flight, so that one follows another that has been
\* answered.
InitLogout ==
  /\ users = <<RegisteredUser(S_bob, E_bob), RegisteredUser(S_amy, E_amy)>>
  /\ todos = << >>
  /\ createdBy = << >>
  /\ now = DayLen
  /\ issued = {jwtSign(1, DayLen), jwtSign(2, DayLen), jwtSign(DeletedUserId, DayLen)}
  /\ strictQuery = FALSE
  /\ reqs = [s \in 1..MaxReqs |-> Idle]

ReceiveLogout == \E s \in Slots : Receive(s, "logout")

NextLogout ==
  \/ Tick
  \/ ReceiveLogout
  \/ \E s \in Slots : Authenticate(s)
  \/ \E s \in Slots : Logout(s)

SpecLogout == InitLogout /\ [][NextLogout]_vars

(* ------------------------------ properties ---------------------------- *)

Range(q) == {q[i] : i \in DOMAIN q}

Done(s) == reqs[s].pc = "done"

\* request s leaves the gate in this step
LeavesGate(s) == reqs[s].pc = "gate" /\ reqs'[s].pc # "gate"

C2_BadTokenUnauthorized ==
  /\ [][\A s \in Slots :
          (/\ LeavesGate(s)
           /\ reqs[s].token.sig # "none"
           /\ \/ reqs[s].token.sig # "good"
              \/ now >= reqs[s].token.exp
              \/ reqs[s].token.id \notin UserIds)
          => /\ reqs'[s].pc = "done"
             /\ reqs'[s].status = UNAUTHORIZED
             /\ reqs'[s].user = NoUser
             /\ users' = users
             /\ todos' = todos]_vars
  /\ [](\A t \in issued : now >= t.exp => authenticate(t).status = UNAUTHORIZED)

\* an issued token of an existing user, refused at or after its expiry
C2_Witness ==
  \E s \in Slots :
    /\ Done(s)
    /\ reqs[s].token \in issued
    /\ reqs[s].token.id \in UserIds
    /\ now >= reqs[s].token.exp
    /\ reqs[s].status = UNAUTHORIZED

\* the other two cases of C2: a forged token, and an unexpired signed token
\* whose subject is no user
C2_WitnessForged ==
  \E s \in Slots :
    Done(s) /\ reqs[s].token.sig = "bad" /\ reqs[s].status = UNAUTHORIZED

C2_WitnessNoUser ==
  \E s \in Slots :
    /\ Done(s)
    /\ reqs[s].token \in issued
    /\ reqs[s].token.id \notin UserIds
    /\ reqs[s].message = "User not found"
    /\ reqs[s].status = UNAUTHORIZED

\* C3: in every state, for every user B and every bucket, the tasks the
\* bucket returns to B are referenced by B's own todos, and none of them
\* was created under another identity; every bucket response carries
\* exactly what its bucket selects for the caller.
C3_BucketsOwnTasksOnly ==
  /\ \A u \in UserIds : \A route \in BucketRoutes :
       \A i \in Range(bucket(route, u)) :
         /\ i \in Range(users[u].todos)
         /\ createdBy[i] = u
  /\ \A s \in Slots :
       (Done(s) /\ reqs[s].route \in BucketRoutes /\ reqs[s].status = OK)
       => \A i \in Range(reqs[s].out.todos) :
            i \in Range(users[reqs[s].user].todos) /\ createdBy[i] = reqs[s].user

\* user 2 is answered an empty bucket while user 1 has a task that the
\* same bucket selects for user 1
C3_Witness ==
  \E s \in Slots :
    /\ Done(s)
    /\ reqs[s].route \in BucketRoutes
    /\ reqs[s].status = OK
    /\ reqs[s].user = 2
    /\ reqs[s].out.todos = << >>
    /\ bucket(reqs[s].route, 1) # << >>

\* C4: no two user records have the same username or the same email, also
\* when signups for the same username or email have all run their look-ups
\* before any of them saves.
C4_UniqueIdentity ==
  \A i \in UserIds : \A j \in UserIds :
    i # j => users[i].username # users[j].username /\ users[i].email # users[j].email

\* two signups of the same username were both past their look-ups; one was
\* saved and the other refused by the store
C4_Witness ==
  \E s \in Slots : \E t \in Slots :
    /\ s # t
    /\ Done(s) /\ reqs[s].route = "signup" /\ reqs[s].status = OK
    /\ reqs[t].pc = "done" /\ reqs[t].route = "signup"
    /\ reqs[t].status = INTERNAL_SERVER_ERROR
    /\ castUsername(reqs[t].body.username) = castUsername(reqs[s].body.username)
    /\ Len(users) = 1

\* the user a login body names and whose password it carries, 0 if none
Credentialed(body) ==
  IF Falsy(body, "username") \/ Falsy(body, "password") THEN 0
  ELSE LET hit == {i \in UserIds :
                     /\ users[i].username = castUsername(body.username)
                     /\ users[i].password = [plain |-> body.password, rounds |-> 1]}
       IN  IF hit = {} THEN 0 ELSE CHOOSE i \in hit : TRUE

\* C5: a login with an existing username and that user's current password
\* is answered 200 with a signed token whose subject is that user's id;
\* the gate accepts the token when it is issued, and accepts every issued
\* token of a user before its expiry, attaching the token's subject and no
\* other user.
C5_LoginTokenUsable ==
  /\ [](\A s \in Slots :
          (Done(s) /\ reqs[s].route = "login" /\ Credentialed(reqs[s].body) # 0)
          => /\ reqs[s].status = OK
             /\ reqs[s].out.token.sig = "good"
             /\ reqs[s].out.token.id = Credentialed(reqs[s].body)
             /\ reqs[s].out.userInfo.id = Credentialed(reqs[s].body)
             /\ reqs[s].out.token \in issued
             /\ reqs[s].out.token.exp > now
                  => authenticate(reqs[s].out.token) =
                       [status |-> OK, message |-> "next",
                        user |-> Credentialed(reqs[s].body)])
  /\ [][\A s \in Slots :
          (/\ reqs[s].pc = "handler" /\ reqs[s].route = "login"
           /\ reqs'[s].pc = "done" /\ reqs'[s].status = OK)
          => reqs'[s].out.token.exp > now]_vars
  /\ [][\A s \in Slots :
          (/\ LeavesGate(s)
           /\ reqs[s].token \in issued
           /\ reqs[s].token.id \in UserIds
           /\ now < reqs[s].token.exp)
          => /\ reqs'[s].pc = "handler"
             /\ reqs'[s].user = reqs[s].token.id]_vars

\* the second of two users logs in and the gate would attach user 2
C5_Witness ==
  \E s \in Slots :
    /\ Done(s)
    /\ reqs[s].route = "login"
    /\ reqs[s].status = OK
    /\ Len(users) = 2
    /\ reqs[s].out.token.id = 2
    /\ authenticate(reqs[s].out.token).user = 2

\* the user a login body names with a password that is not the user's
WrongPassword(body) ==
  /\ ~Falsy(body, "username")
  /\ ~Falsy(body, "password")
  /\ \E i \in UserIds :
       /\ users[i].username = castUsername(body.username)
       /\ users[i].password # [plain |-> body.password, rounds |-> 1]

C7_PasswordHashedOnce ==
  /\ [](\A u \in UserIds :
          /\ users[u].password.rounds = 1
          /\ users[u].password.plain # << >>)
  /\ [](\A s \in Slots :
          (Done(s) /\ reqs[s].route = "passwordReset" /\ reqs[s].status = OK)
          => /\ isPasswordValid(users[reqs[s].user], reqs[s].body.newPassword)
             /\ reqs[s].body.oldPassword # reqs[s].body.newPassword
                  => ~isPasswordValid(users[reqs[s].user], reqs[s].body.oldPassword))
  /\ [](\A s \in Slots :
          (Done(s) /\ reqs[s].route = "login" /\ reqs[s].status \in {OK, UNAUTHORIZED})
          => \E u \in UserIds :
               /\ users[u].username = castUsername(reqs[s].body.username)
               /\ reqs[s].status = OK
                    <=> users[u].password.plain = reqs[s].body.password)
  /\ [][\A u \in UserIds :
          users'[u].password # users[u].password
          => \E s \in Slots :
               /\ reqs[s].pc = "handler"
               /\ reqs[s].route = "passwordReset"
               /\ reqs[s].user = u
               /\ reqs'[s].status = OK
               /\ users'[u].password =
                    [plain |-> reqs'[s].body.newPassword, rounds |-> 1]]_vars
  /\ [][Len(users') > Len(users)
          => \E s \in Slots :
               /\ reqs[s].pc = "signupSave"
               /\ users'[Len(users')].password =
                    [plain |-> reqs[s].body.password, rounds |-> 1]]_vars

\* a user who has reset the password and created a task logs in with the
\* new password
C7_Witness ==
  \E s \in Slots :
    /\ Done(s)
    /\ reqs[s].route = "login"
    /\ reqs[s].status = OK
    /\ reqs[s].body.password = P_two
    /\ users[reqs[s].out.token.id].todos # << >>

\* a signup body with every field present and within the shape rules
WellFormed(body) ==
  /\ ~Falsy(body, "username")
  /\ ~Falsy(body, "email")
  /\ ~Falsy(body, "password")
  /\ userValidationIssues(body) = {}

\* C8: a signup that passes the presence and shape checks and whose
\* username is held by a user when it is looked up, or whose email is held
\* when it is looked up, is answered 409 Conflict; that step creates no
\* user and changes no user record.
C8_DuplicateConflict ==
  /\ [][\A s \in Slots :
          (/\ reqs[s].pc = "handler"
           /\ reqs[s].route = "signup"
           /\ reqs'[s].pc # "handler"
           /\ WellFormed(reqs'[s].body)
           /\ \E i \in UserIds :
                users[i].username = castUsername(reqs'[s].body.username))
          => /\ reqs'[s].pc = "done"
             /\ reqs'[s].status = CONFLICT
             /\ users' = users]_vars
  /\ [][\A s \in Slots :
          (/\ reqs[s].pc = "signupEmail"
           /\ reqs'[s].pc # "signupEmail"
           /\ \E i \in UserIds : users[i].email = reqs[s].body.email)
          => /\ reqs'[s].pc = "done"
             /\ reqs'[s].status = CONFLICT
             /\ users' = users]_vars

\* a signup of a held username with an email nobody holds is refused
C8_Witness ==
  \E s \in Slots :
    /\ Done(s)
    /\ reqs[s].route = "signup"
    /\ reqs[s].status = CONFLICT
    /\ \E i \in UserIds : users[i].username = castUsername(reqs[s].body.username)
    /\ \A i \in UserIds : users[i].email # reqs[s].body.email
    /\ Len(users) = 1

\* a held email with a username nobody holds
C8_WitnessEmail ==
  \E s \in Slots :
    /\ Done(s)
    /\ reqs[s].route = "signup"
    /\ reqs[s].status = CONFLICT
    /\ \E i \in UserIds : users[i].email = reqs[s].body.email
    /\ \A i \in UserIds : users[i].username # castUsername(reqs[s].body.username)

\* the shape rules of a signup, as the specification states them
ShapeViolation(body) ==
  \/ Falsy(body, "username") \/ Falsy(body, "email") \/ Falsy(body, "password")
  \/ Len(body.username) < UsernameMin
  \/ Len(body.username) > UsernameMax
  \/ ~usernameRegex(body.username)
  \/ ~emailRegex(body.email)
  \/ Len(body.password) < PasswordMin

\* C9: a signup whose username, email or password is missing or empty, or
\* breaks the shape rules (username of 3 to 20 letters, digits and
\* underscores, well-formed email, password of 8 characters or more), is
\* answered 400 BadRequest.
C9_InvalidSignupBadRequest ==
  \A s \in Slots :
    (Done(s) /\ reqs[s].route = "signup" /\ ShapeViolation(reqs[s].body))
    => reqs[s].status = BAD_REQUEST

\* what the code does hold to: such a signup is refused (400, 404, 409 or
\* 500) and creates no user
C9_InvalidSignupRefused ==
  /\ [](\A s \in Slots :
          (Done(s) /\ reqs[s].route = "signup" /\ ShapeViolation(reqs[s].body))
          => reqs[s].status \in {BAD_REQUEST, NOT_FOUND, CONFLICT,
                                  INTERNAL_SERVER_ERROR})
  /\ [][Len(users') > Len(users)
          => \E s \in Slots :
               reqs[s].pc = "signupSave" /\ ~ShapeViolation(reqs[s].body)]_vars

\* C10: the step in which a request leaves the gate, passed on or refused,
\* changes no user record (stored tokens included) and no task record.
C10_GateWritesNothing ==
  [][\A s \in Slots : LeavesGate(s) => users' = users /\ todos' = todos]_vars

\* a request has passed the gate while users and tasks are stored
C10_Witness ==
  \E s \in Slots :
    /\ reqs[s].pc = "handler"
    /\ reqs[s].user # NoUser
    /\ todos # << >>

\* C11: every logout of an authenticated user succeeds, the first and any
\* later one with the same token alike: it is answered OK, leaves the
\* user's stored accessToken and refreshToken null, and changes no other
\* field of the user, no other user and no task.
C11_LogoutIdempotent ==
  [][\A s \in Slots :
       (/\ reqs[s].pc = "handler"
        /\ reqs[s].route = "logout"
        /\ reqs'[s].pc # "handler")
       => LET u == reqs[s].user
          IN  /\ reqs'[s].pc = "done"
              /\ reqs'[s].status = OK
              /\ users'[u].accessToken = NoToken
              /\ users'[u].refreshToken = NoToken
              /\ \A f \in DOMAIN users[u] \ {"accessToken", "refreshToken"} :
                   users'[u][f] = users[u][f]
              /\ \A v \in UserIds \ {u} : users'[v] = users[v]
              /\ DOMAIN users' = DOMAIN users
              /\ todos' = todos]_vars

\* two logouts with the same token have both been answered OK
C11_Witness ==
  \E s \in Slots : \E r \in Slots \ {s} :
    /\ Done(s) /\ Done(r)
    /\ reqs[s].route = "logout" /\ reqs[r].route = "logout"
    /\ reqs[s].token = reqs[r].token
    /\ reqs[s].token.sig = "good"
    /\ reqs[s].status = OK /\ reqs[r].status = OK
    /\ users[reqs[s].user].accessToken = NoToken
    /\ users[reqs[s].user].refreshToken = NoToken

\* a password reset with both fields present that was refused: the old
\* password did not match the stored hash (the store is as the handler
\* left it while the answer is held)
ResetMismatch(s) ==
  /\ Done(s)
  /\ reqs[s].route = "passwordReset"
  /\ ~Falsy(reqs[s].body, "oldPassword")
  /\ ~Falsy(reqs[s].body, "newPassword")
  /\ reqs[s].status # OK
  /\ users[reqs[s].user].password # [plain |-> reqs[s].body.oldPassword, rounds |-> 1]

\* C12: a password reset by an authenticated user whose oldPassword does
\* not match the stored hash is answered 401 Unauthorized.
C12_ResetMismatchUnauthorized ==
  \A s \in Slots : ResetMismatch(s) => reqs[s].status = UNAUTHORIZED

\* what the code does hold to: such a reset is refused (with 500) and the
\* step changes no user record
C12_ResetMismatchRefused ==
  /\ [](\A s \in Slots : ResetMismatch(s) => reqs[s].status = INTERNAL_SERVER_ERROR)
  /\ [][\A s \in Slots :
          (/\ reqs[s].pc = "handler"
           /\ reqs[s].route = "passwordReset"
           /\ reqs'[s].status # OK)
          => users' = users]_vars

C13_WitnessNoUser ==
  \E s \in Slots :
    /\ Done(s)
    /\ reqs[s].route = "refreshToken"
    /\ reqs[s].status = UNAUTHORIZED
    /\ "token" \in DOMAIN reqs[s].body
    /\ reqs[s].body.token.id = DeletedUserId
    /\ reqs[s].user # NoUser

\* C14: the stored tokens of a user are the tokens issued last: once a
\* login or a refresh has been answered OK, the stored accessToken of the
\* token's subject is the token returned, and once a logout has been
\* answered OK both stored tokens of the caller are null.
C14_StoredTokensLastIssued ==
  \A s \in Slots :
    /\ (Done(s) /\ reqs[s].route \in {"login", "refreshToken"} /\ reqs[s].status = OK)
       => users[reqs[s].out.token.id].accessToken = reqs[s].out.token
    /\ (Done(s) /\ reqs[s].route = "logout" /\ reqs[s].status = OK)
       => /\ users[reqs[s].user].accessToken = NoToken
          /\ users[reqs[s].user].refreshToken = NoToken

\* what the code does hold to: no handler ever stores a token
C14_StoredTokensAlwaysNull ==
  \A u \in UserIds :
    users[u].accessToken = NoToken /\ users[u].refreshToken = NoToken

\* the ids of the tasks created under identity u, in creation order
CreatedUnder(u) ==
  SelectSeq([i \in 1..Len(todos) |-> i], LAMBDA i : createdBy[i] = u)

C15_WitnessTwoUsers ==
  /\ Len(users) = 2
  /\ users[1].todos # << >>
  /\ users[2].todos # << >>

\* the Task shape, as the specification states it: title of 1 to 100
\* characters, non-empty description, dueDate that parses as a date
TaskShapeViolation(body) ==
  \/ "title" \notin DOMAIN body
  \/ Len(body.title) < 1
  \/ Len(body.title) > TitleMax
  \/ "description" \notin DOMAIN body
  \/ Len(body.description) < 1
  \/ "dueDate" \notin DOMAIN body
  \/ body.dueDate.kind # "iso"

\* the body a create or an update was sent with
TaskBodyOf(s) ==
  IF reqs[s].route = "update" THEN reqs[s].body.body ELSE reqs[s].body

\* a create or an update has been handled (not refused by the gate)
TaskWriteHandled(s) ==
  /\ Done(s)
  /\ reqs[s].route \in {"createTask", "update"}
  /\ reqs[s].user # NoUser

\* C16: a create or an update whose body violates the Task shape is
\* answered 400 BadRequest with a non-empty list of validation messages.
C16_InvalidTaskBadRequest ==
  \A s \in Slots :
    (TaskWriteHandled(s) /\ TaskShapeViolation(TaskBodyOf(s)))
    => /\ reqs[s].status = BAD_REQUEST
       /\ "errors" \in DOMAIN reqs[s].out
       /\ reqs[s].out.errors # {}

\* what the code does hold to: such a create is answered 400 with its
\* messages, such an update 500 without them, and neither writes anything
C16_InvalidTaskRefused ==
  /\ [](\A s \in Slots :
          (TaskWriteHandled(s) /\ TaskShapeViolation(TaskBodyOf(s)))
          => IF reqs[s].route = "createTask"
             THEN /\ reqs[s].status = BAD_REQUEST
                  /\ reqs[s].out.errors # {}
             ELSE /\ reqs[s].status = INTERNAL_SERVER_ERROR
                  /\ DOMAIN reqs[s].out = {})
  /\ [][\A s \in Slots :
          (/\ reqs[s].pc = "handler"
           /\ reqs[s].route \in {"createTask", "update"}
           /\ reqs'[s].pc = "done"
           /\ reqs'[s].status # OK)
          => users' = users /\ todos' = todos]_vars

\* a body within the Task shape whose priorityScore is outside 0..10
PriorityOutOfRange(body) ==
  /\ ~TaskShapeViolation(body)
  /\ "priorityScore" \in DOMAIN body
  /\ (body.priorityScore < 0 \/ body.priorityScore > PriorityMax)

\* C17: a create or an update whose priorityScore is outside 0..10 is
\* answered 400 BadRequest, by the one policy for both.
C17_PriorityRejectedAlike ==
  \A s \in Slots :
    (TaskWriteHandled(s) /\ PriorityOutOfRange(TaskBodyOf(s)))
    => reqs[s].status = BAD_REQUEST

\* what the code does: the create is refused with 500 and writes nothing,
\* the update of an existing task is answered OK and stores the score
C17_PriorityPolicies ==
  \A s \in Slots :
    (TaskWriteHandled(s) /\ PriorityOutOfRange(TaskBodyOf(s)))
    => IF reqs[s].route = "createTask"
       THEN reqs[s].status = INTERNAL_SERVER_ERROR
       ELSE \/ /\ reqs[s].status = OK
               /\ todos[reqs[s].body.id].priorityScore = TaskBodyOf(s).priorityScore
            \/ /\ reqs[s].status = INTERNAL_SERVER_ERROR
               /\ reqs[s].body.id \notin TodoIds

\* C18: every stored task has a priorityScore from 0 to 10.
C18_PriorityInRange ==
  \A i \in TodoIds :
    todos[i].priorityScore >= 0 /\ todos[i].priorityScore <= PriorityMax

\* what the code does hold to: a task is created with a score in range, and
\* only an update takes it out of range
C18_PriorityInRangeAtCreate ==
  [][/\ Len(todos') > Len(todos)
        => todoSchemaValid(todos'[Len(todos')])
     /\ \A i \in DOMAIN todos :
          (todos'[i].alive /\ todos'[i].priorityScore # todos[i].priorityScore)
          => \E s \in Slots : reqs[s].pc = "handler" /\ reqs[s].route = "update"]_vars

\* a markDone has been handled (not refused by the gate)
MarkDoneHandled(s) ==
  /\ Done(s)
  /\ reqs[s].route = "markDone"
  /\ reqs[s].user # NoUser

\* the stored task id is in the todos of user u
Owns(u, id) == id \in TodoIds /\ id \in Range(users[u].todos)

\* C19: a markDone of a stored task in the caller's own todos is answered
\* OK and leaves the task completed; the task is then in the caller's done
\* bucket and in none of today, upcoming and overdue.
C19_MarkDoneOwnTask ==
  \A s \in Slots :
    (MarkDoneHandled(s) /\ Owns(reqs[s].user, reqs[s].body.id))
    => LET u  == reqs[s].user
           id == reqs[s].body.id
       IN  /\ reqs[s].status = OK
           /\ todos[id].completed
           /\ id \in Range(doneTasks(u))
           /\ id \notin Range(todayTasks(u))
           /\ id \notin Range(upcomingTasks(u))
           /\ id \notin Range(overdueTasks(u))

\* what the code does, by build: where the filter on the path user is kept
\* (strictQuery off) no task matches and the answer is 500; where it is
\* dropped the task is completed, is in done, in neither today nor overdue,
\* and stays in upcoming when it is due before today
C19_MarkDoneByBuild ==
  \A s \in Slots :
    (MarkDoneHandled(s) /\ Owns(reqs[s].user, reqs[s].body.id))
    => LET u  == reqs[s].user
           id == reqs[s].body.id
       IN  IF strictQuery
           THEN /\ reqs[s].status = OK
                /\ todos[id].completed
                /\ id \in Range(doneTasks(u))
                /\ id \notin Range(todayTasks(u))
                /\ id \notin Range(overdueTasks(u))
                /\ id \in Range(upcomingTasks(u)) <=> todos[id].dueDate < startOfToday
           ELSE reqs[s].status = INTERNAL_SERVER_ERROR

\* C20: a markDone of a task id that is not in the caller's todos is
\* answered 404 NotFound.
C20_MarkDoneNotOwnedNotFound ==
  \A s \in Slots :
    (MarkDoneHandled(s) /\ ~Owns(reqs[s].user, reqs[s].body.id))
    => reqs[s].status = NOT_FOUND

\* what the code does, by build: where the filter on the path user is
\* dropped, a stored task of another user is completed and the answer is
\* OK; otherwise the answer is 500; a task changes its completed flag in a
\* markDone step only
C20_MarkDoneNotOwnedByBuild ==
  /\ [](\A s \in Slots :
          (MarkDoneHandled(s) /\ ~Owns(reqs[s].user, reqs[s].body.id))
          => IF strictQuery /\ reqs[s].body.id \in TodoIds
             THEN reqs[s].status = OK /\ todos[reqs[s].body.id].completed
             ELSE reqs[s].status = INTERNAL_SERVER_ERROR)
  /\ [][\A i \in DOMAIN todos :
          (todos'[i].alive /\ todos'[i].completed # todos[i].completed)
          => \E s \in Slots :
               /\ reqs[s].pc = "handler"
               /\ reqs[s].route = "markDone"
               /\ reqs'[s].body.id = i
               /\ strictQuery]_vars

\* a markDone, an update with a body within the Task shape, or a delete
\* has been handled and refused, and its id names no stored task (a delete
\* answered OK is the one that removed the task; the store is as the
\* handler left it while the answer is held)
AbsentTaskRefused(s) ==
  /\ Done(s)
  /\ reqs[s].route \in {"markDone", "update", "delete"}
  /\ reqs[s].user # NoUser
  /\ reqs[s].status # OK
  /\ reqs[s].body.id \notin TodoIds
  /\ reqs[s].route = "update" => ~TaskShapeViolation(reqs[s].body.body)

\* C21: a markDone, an update with a valid body, or a delete addressed to
\* an id that matches no stored task is answered 404 NotFound.
C21_AbsentTaskNotFound ==
  \A s \in Slots : AbsentTaskRefused(s) => reqs[s].status = NOT_FOUND

\* what the code does hold to: such a request is answered 500, and no
\* refused markDone, update or delete writes anything
C21_AbsentTaskServerError ==
  /\ [](\A s \in Slots : AbsentTaskRefused(s) => reqs[s].status = INTERNAL_SERVER_ERROR)
  /\ [][\A s \in Slots :
          (/\ reqs[s].pc = "handler"
           /\ reqs[s].route \in {"markDone", "update", "delete"}
           /\ reqs'[s].pc = "done"
           /\ reqs'[s].status # OK)
          => users' = users /\ todos' = todos]_vars

\* the users whose todos hold the task id
OwnersOf(id) == {u \in UserIds : id \in Range(users[u].todos)}

\* C22: every stored task is in the todos of exactly one user.
C22_ExactlyOneOwner ==
  \A id \in TodoIds : Cardinality(OwnersOf(id)) = 1

\* two tasks are stored, one of each user, after a task was deleted or not
C22_Witness ==
  /\ Cardinality(TodoIds) = 2
  /\ \E i, j \in TodoIds : OwnersOf(i) = {1} /\ OwnersOf(j) = {2}

\* a bucket query of the given route has been answered OK
BucketAnswered(s, route) ==
  /\ Done(s)
  /\ reqs[s].route = route
  /\ reqs[s].status = OK

\* the stored tasks in the todos of u that are not completed
OpenTasksOf(u) ==
  {i \in TodoIds : i \in Range(users[u].todos) /\ ~todos[i].completed}

\* C23: the today bucket returns exactly the caller's tasks created within
\* the current day and not completed.  Every task of this specification is
\* created within the current day (the clock stays in the day it starts
\* in), so these are the caller's stored tasks that are not completed.
C23_TodayCreatedToday ==
  \A s \in Slots :
    BucketAnswered(s, "today")
    => Range(reqs[s].out.todos) = OpenTasksOf(reqs[s].user)

\* what the code does, by build: where the filter on the path createdAt is
\* kept (strictQuery off) the bucket is empty; where it is dropped the
\* bucket is every stored task of the caller that is not completed
C23_TodayByBuild ==
  \A s \in Slots :
    BucketAnswered(s, "today")
    => Range(reqs[s].out.todos) =
         (IF strictQuery THEN OpenTasksOf(reqs[s].user) ELSE {})

\* the stored tasks in the todos of u that are due before the start of
\* today and not completed
DueBeforeToday(u) ==
  {i \in OpenTasksOf(u) : todos[i].dueDate < startOfToday}

\* C24: for every caller, the upcoming and the overdue bucket hold the same
\* tasks: the caller's tasks due before the start of today and not
\* completed.
C24_UpcomingIsOverdue ==
  \A u \in UserIds :
    /\ upcomingTasks(u) = overdueTasks(u)
    /\ Range(upcomingTasks(u)) = DueBeforeToday(u)
    /\ Range(overdueTasks(u)) = DueBeforeToday(u)

\* what the code does: overdue is as stated; upcoming is empty where the
\* filter on the path isCompleted is kept (strictQuery off), and where it
\* is dropped holds the caller's tasks due before today, completed or not
C24_UpcomingByBuild ==
  \A u \in UserIds :
    /\ Range(overdueTasks(u)) = DueBeforeToday(u)
    /\ Range(upcomingTasks(u)) =
         (IF strictQuery
          THEN {i \in TodoIds : /\ i \in Range(users[u].todos)
                                /\ todos[i].dueDate < startOfToday}
          ELSE {})

\* request s has been received and not yet answered
InFlight(s) == reqs[s].pc \notin {"idle", "done"}

\* how far a request has come
Stage(s) ==
  CASE reqs[s].pc = "idle"        -> 0
    [] reqs[s].pc = "gate"        -> 1
    [] reqs[s].pc = "handler"     -> 2
    [] reqs[s].pc = "signupEmail" -> 3
    [] reqs[s].pc = "signupSave"  -> 4
    [] reqs[s].pc = "done"        -> 5

C25_Answered ==
  \A s \in 1..MaxReqs :
    (s \in Slots /\ InFlight(s)) ~> (s \in Slots /\ Done(s))

C25_WitnessSuccess ==
  \E s \in Slots :
    /\ Done(s)
    /\ envelope(s).success
    /\ DOMAIN envelope(s).data # {}


(* ------------------------------- C26 ---------------------------------- *)

\* a passwordReset that passed the gate and the field check, gave an old
\* password that is not the stored one, and was refused: the handler
\* constructed ApiError(UNAUTHORIZED, "Old password is incorrect")
ResetWrongOldPassword(s) ==
  /\ Done(s)
  /\ reqs[s].route = "passwordReset"
  /\ reqs[s].user # NoUser
  /\ reqs[s].status # OK
  /\ ~Falsy(reqs[s].body, "oldPassword")
  /\ ~Falsy(reqs[s].body, "newPassword")
  /\ ~isPasswordValid(users[reqs[s].user], reqs[s].body.oldPassword)

\* C26: every error raised while handling a request reaches the caller with
\* the status and message it was constructed with: a passwordReset whose old
\* password is wrong is answered 401 "Old password is incorrect"
C26_DomainErrorKeepsStatus ==
  \A s \in Slots :
    ResetWrongOldPassword(s) =>
      /\ reqs[s].status = UNAUTHORIZED
      /\ reqs[s].message = "Old password is incorrect"

\* what the code holds to: the error constructed inside the try block of
\* passwordReset is caught there and replaced by 500 "Failed to reset
\* password", while the errors thrown before the try block keep their status
C26_ResetErrorReplaced ==
  \A s \in Slots :
    (Done(s) /\ reqs[s].route = "passwordReset" /\ reqs[s].user # NoUser
       /\ reqs[s].status # OK) =>
      IF Falsy(reqs[s].body, "oldPassword") \/ Falsy(reqs[s].body, "newPassword")
      THEN /\ reqs[s].status = BAD_REQUEST
           /\ reqs[s].message = "old password, and new password are required"
      ELSE /\ ResetWrongOldPassword(s)
           /\ reqs[s].status = INTERNAL_SERVER_ERROR
           /\ reqs[s].message = "Failed to reset password"


(* ------------------------------- C27 ---------------------------------- *)

\* a signup that saved its user and answered with it
SignedUp(s) ==
  /\ Done(s)
  /\ reqs[s].route = "signup"
  /\ "user" \in DOMAIN reqs[s].out

\* the projection returned is that of a stored user and holds no password
PublicProjection(p) ==
  /\ DOMAIN p = {"id", "email", "name"}
  /\ p.id \in UserIds
  /\ p.email = users[p.id].email
  /\ p.name = users[p.id].username

\* C27: a signup with a valid, unused username and email and a valid password
\* responds 201 with success = true and data.user the public projection of
\* the new user
C27_SignupCreated ==
  \A s \in Slots :
    SignedUp(s) =>
      /\ reqs[s].status = CREATED
      /\ envelope(s).success
      /\ PublicProjection(reqs[s].out.user)

\* what the code holds to: the same answer, sent with ResponseHandler's
\* default status 200
C27_SignupOk ==
  \A s \in Slots :
    SignedUp(s) =>
      /\ reqs[s].status = OK
      /\ envelope(s).success
      /\ DOMAIN envelope(s).data = {"user"}
      /\ PublicProjection(reqs[s].out.user)


(* ------------------------------- C28 ---------------------------------- *)

\* a login that was answered with success
LoggedIn(s) ==
  /\ Done(s)
  /\ reqs[s].route = "login"
  /\ reqs[s].status = OK

\* C28: the data of a successful login holds accessToken and refreshToken,
\* both defined, and the projection (name, email) of the user under user
C28_LoginIssuesBothTokens ==
  \A s \in Slots :
    LoggedIn(s) =>
      LET data == envelope(s).data
      IN  /\ {"accessToken", "refreshToken", "user"} \subseteq DOMAIN data
          /\ data.accessToken # NoToken
          /\ data.refreshToken # NoToken
          /\ data.user.name = users[data.user.id].username
          /\ data.user.email = users[data.user.id].email

\* what the code holds to: the data is { userInfo, token }, one signed token
\* of the user and their projection under userInfo
C28_LoginIssuesOneToken ==
  \A s \in Slots :
    LoggedIn(s) =>
      LET data == envelope(s).data
      IN  /\ DOMAIN data = {"userInfo", "token"}
          /\ data.token \in issued
          /\ data.token.id = data.userInfo.id
          /\ PublicProjection(data.userInfo)


(* ------------------------------- C29 ---------------------------------- *)

\* a login handled with both fields given
LoginHandled(s) ==
  /\ Done(s)
  /\ reqs[s].route = "login"
  /\ ~Falsy(reqs[s].body, "username")
  /\ ~Falsy(reqs[s].body, "password")

\* no registered user has the username exactly as it was written
UnknownAsWritten(username) ==
  \A u \in UserIds : users[u].username # username

\* C29: a login with a username that belongs to no registered user, a
\* registered one written in another letter case included, is answered 401
\* with success = false and no token
C29_UnknownUserUnauthorized ==
  \A s \in Slots :
    (LoginHandled(s) /\ UnknownAsWritten(reqs[s].body.username)) =>
      /\ reqs[s].status = UNAUTHORIZED
      /\ ~envelope(s).success
      /\ "token" \notin DOMAIN reqs[s].out

\* what the code holds to: a username that matches no user after the
\* setters of the schema is answered 404 "user not found" with no token; one
\* that differs from a registered username in letter case only is that
\* user's, and the login succeeds with their password
C29_UnknownUserNotFound ==
  \A s \in Slots :
    (LoginHandled(s) /\ UnknownAsWritten(reqs[s].body.username)) =>
      IF findByUsername(reqs[s].body.username) = 0
      THEN /\ reqs[s].status = NOT_FOUND
           /\ reqs[s].message = "user not found"
           /\ ~envelope(s).success
           /\ "token" \notin DOMAIN reqs[s].out
      ELSE LET u == findByUsername(reqs[s].body.username)
           IN  IF isPasswordValid(users[u], reqs[s].body.password)
               THEN /\ reqs[s].status = OK
                    /\ reqs[s].out.token.id = u
               ELSE reqs[s].status = UNAUTHORIZED

\* both cases happen: an unknown user refused, and a login under another
\* letter case answered with a token
C29_WitnessNotFound ==
  \E s \in Slots :
    /\ LoginHandled(s) /\ users # << >>
    /\ findByUsername(reqs[s].body.username) = 0
    /\ reqs[s].status = NOT_FOUND

C29_WitnessOtherCase ==
  \E s \in Slots :
    /\ LoginHandled(s)
    /\ UnknownAsWritten(reqs[s].body.username)
    /\ reqs[s].status = OK


(* ------------------------------- C30 ---------------------------------- *)

\* a createTask that stored its task and answered with it
Created(s) ==
  /\ Done(s)
  /\ reqs[s].route = "createTask"
  /\ "todo" \in DOMAIN reqs[s].out

\* the fields of the task returned that the body gave are as the body gave
\* them, the due date as the instant its text denotes
AsSubmitted(todo, body) ==
  /\ todo.title = body.title
  /\ todo.description = body.description
  /\ todo.dueDate = body.dueDate.t
  /\ \A f \in {"completed", "priorityScore", "estimatedTime", "tags"} \cap DOMAIN body :
       todo[f] = body[f]

\* C30: a successful create responds 201 and returns the task with title,
\* description, dueDate, completed, priorityScore, estimatedTime and tags
\* equal to the values submitted, completed = true included
C30_CreateReturnsSubmitted ==
  \A s \in Slots :
    Created(s) =>
      /\ reqs[s].status = CREATED
      /\ AsSubmitted(reqs[s].out.todo, reqs[s].body)

\* what the code holds to: the answer is 200 with the stored task, whose
\* completed is false whatever the body said, the other fields as submitted
C30_CreateReturnsStored ==
  \A s \in Slots :
    Created(s) =>
      /\ reqs[s].status = OK
      /\ envelope(s).success
      /\ reqs[s].out.todo = todos[reqs[s].out.id]
      /\ ~reqs[s].out.todo.completed
      /\ AsSubmitted(reqs[s].out.todo,
                     [f \in DOMAIN reqs[s].body \ {"completed"} |-> reqs[s].body[f]])

\* a create whose body said completed = true was answered
C30_WitnessCompleted ==
  \E s \in Slots :
    /\ Created(s)
    /\ "completed" \in DOMAIN reqs[s].body
    /\ reqs[s].body.completed


(* ----------------------------- asyncHandler --------------------------- *)

\* what a function handed to asyncHandler may do when called: return a
\* promise that is later fulfilled or rejected, return a plain value, or
\* throw before it returns anything (only a function that is not async can)
HandlerKinds == {"resolves", "rejects", "returns", "throws"}

Errors == {"E1", "E2"}

NotCalled ==
  [pc |-> "idle", handler |-> "", error |-> "", called |-> 0, args |-> << >>,
   promise |-> "none", wrapper |-> "none", nextArgs |-> << >>, logged |-> << >>]

\* the function asyncHandler returns is called: requestHandler(req, res,
\* next) is evaluated first.  If it throws, the async function ends there and
\* its own promise is rejected: Promise.resolve and catch are never reached.
\* Otherwise the value is wrapped, the catch reaction is registered and the
\* async function returns without waiting.
asyncHandler(s, handler, error) ==
  /\ reqs[s].pc = "idle"
  /\ reqs' = [reqs EXCEPT ![s] =
       [NotCalled EXCEPT
          !.handler = handler,
          !.error   = error,
          !.called  = 1,
          !.args    = <<"req", "res", "next">>,
          !.pc      = IF handler = "throws" THEN "done"
                      ELSE IF handler = "returns" THEN "settled" ELSE "pending",
          !.promise = IF handler = "throws" THEN "none"
                      ELSE IF handler = "returns" THEN "fulfilled" ELSE "pending",
          !.wrapper = IF handler = "throws" THEN "rejected" ELSE "fulfilled"]]
  /\ UNCHANGED <<users, todos, now, issued, strictQuery, createdBy>>

\* the promise the handler returned settles
HandlerSettles(s) ==
  /\ reqs[s].pc = "pending"
  /\ reqs' = [reqs EXCEPT ![s].pc = "settled",
                          ![s].promise = IF reqs[s].handler = "rejects"
                                         THEN "rejected" ELSE "fulfilled"]
  /\ UNCHANGED <<users, todos, now, issued, strictQuery, createdBy>>

\* the reaction registered by catch: on a rejection console.error(err), then
\* next(err); on a fulfilment nothing
CatchReaction(s) ==
  /\ reqs[s].pc = "settled"
  /\ reqs' = [reqs EXCEPT
       ![s].pc = "done",
       ![s].logged = IF reqs[s].promise = "rejected"
                     THEN Append(@, reqs[s].error) ELSE @,
       ![s].nextArgs = IF reqs[s].promise = "rejected"
                       THEN Append(@, reqs[s].error) ELSE @]
  /\ UNCHANGED <<users, todos, now, issued, strictQuery, createdBy>>

\* The asyncHandler specification: MaxReqs calls of wrapped functions, their
\* promises settling in any order.
InitAsync ==
  /\ users = << >>
  /\ todos = << >>
  /\ createdBy = << >>
  /\ now = DayLen
  /\ issued = {}
  /\ strictQuery = FALSE
  /\ reqs = [s \in 1..MaxReqs |-> NotCalled]

NextAsync ==
  \/ \E s \in Slots, handler \in HandlerKinds, error \in Errors :
       asyncHandler(s, handler, error)
  \/ \E s \in Slots : HandlerSettles(s)
  \/ \E s \in Slots : CatchReaction(s)

SpecAsync == InitAsync /\ [][NextAsync]_vars

(* ------------------------------- C31 ---------------------------------- *)

\* C31: asyncHandler calls the wrapped handler exactly once with (req, res,
\* next); when the handler fails, by a rejected promise or by a throw, the
\* error is passed to next exactly once, and when it completes normally next
\* is never called with an error
C31_ErrorToNextOnce ==
  \A s \in Slots :
    reqs[s].pc = "done" =>
      /\ reqs[s].called = 1
      /\ reqs[s].args = <<"req", "res", "next">>
      /\ IF reqs[s].handler \in {"rejects", "throws"}
         THEN reqs[s].nextArgs = <<reqs[s].error>>
         ELSE reqs[s].nextArgs = << >>

\* what the code holds to: one call; a rejection is logged and passed to next
\* once; a fulfilment or a plain value never reaches next; a throw rejects the
\* promise of the wrapper itself and next is never called
C31_RejectionToNextOnce ==
  \A s \in Slots :
    /\ reqs[s].called <= 1
    /\ Len(reqs[s].nextArgs) <= 1
    /\ reqs[s].pc = "done" =>
         /\ reqs[s].called = 1
         /\ reqs[s].args = <<"req", "res", "next">>
         /\ reqs[s].logged = reqs[s].nextArgs
         /\ CASE reqs[s].handler = "rejects" ->
                   reqs[s].nextArgs = <<reqs[s].error>> /\ reqs[s].wrapper = "fulfilled"
              [] reqs[s].handler = "throws" ->
                   reqs[s].nextArgs = << >> /\ reqs[s].wrapper = "rejected"
              [] OTHER ->
                   reqs[s].nextArgs = << >> /\ reqs[s].wrapper = "fulfilled"

C31_WitnessRejected ==
  \E s \in Slots :
    reqs[s].pc = "done" /\ reqs[s].handler = "rejects" /\ reqs[s].nextArgs # << >>


(* ------------------------------- C32 ---------------------------------- *)

\* the handler of request s ends in this step, for an update with a valid
\* body or a delete, on a task there is that another user created
OnTaskOfAnother(s) ==
  /\ reqs[s].pc = "handler"
  /\ reqs'[s].pc = "done"
  /\ reqs[s].route \in {"update", "delete"}
  /\ reqs'[s].body.id \in TodoIds
  /\ createdBy[reqs'[s].body.id] # reqs[s].user
  /\ reqs[s].route = "update" => todoValidationIssues(reqs'[s].body.body) = {}

\* C32: update and delete select the task by id alone: when a user submits a
\* valid update or a delete for an existing task of another user, the
\* request succeeds and that task is modified or removed
C32_UpdateDeleteByIdAlone ==
  [][\A s \in Slots :
       OnTaskOfAnother(s) =>
         LET id == reqs'[s].body.id
         IN  /\ reqs'[s].status = OK
             /\ reqs[s].route = "delete" => id \notin TodoIds'
             /\ reqs[s].route = "update" =>
                  /\ id \in TodoIds'
                  /\ todos'[id] = applyUpdate(todos[id],
                                              todoValidationData(reqs'[s].body.body))
                  /\ reqs'[s].out.todo = todos'[id]
             /\ users' = users]_vars

\* a task of one user was updated at the request of the other, to other
\* content than it had
C32_Witness ==
  \E s \in Slots :
    /\ Done(s)
    /\ reqs[s].route = "update"
    /\ reqs[s].status = OK
    /\ createdBy[reqs[s].body.id] # reqs[s].user
    /\ todos[reqs[s].body.id].dueDate = DueLater

\* a task of one user was deleted at the request of the other
C32_WitnessDelete ==
  \E s \in Slots :
    /\ Done(s)
    /\ reqs[s].route = "delete"
    /\ reqs[s].status = OK
    /\ createdBy[reqs[s].body.id] # reqs[s].user


(* ------------------- task creation, write by write -------------------- *)

\* createTask to its first write: the body validated, then
\* Todo.create(todoData).  The handler holds the new document in todo (kept
\* here in out) and goes on to its second write.
CreateInsert(s, body) ==
  /\ reqs[s].pc = "handler"
  /\ reqs[s].route = "createTask"
  /\ IF todoValidationIssues(body) # {}
     THEN /\ respond(s, body, BAD_REQUEST, "Invalid input data",
                     [errors |-> todoValidationIssues(body)])
          /\ UNCHANGED <<todos, createdBy>>
     ELSE IF ~todoSchemaValid(newTodo(todoValidationData(body)))
     THEN /\ respond(s, body, INTERNAL_SERVER_ERROR, "Failed to create todo", << >>)
          /\ UNCHANGED <<todos, createdBy>>
     ELSE /\ Len(todos) < MaxTodos
          /\ todos' = Append(todos, newTodo(todoValidationData(body)))
          /\ createdBy' = Append(createdBy, reqs[s].user)
          /\ reqs' = [reqs EXCEPT ![s].pc = "createSave",
                                  ![s].body = body,
                                  ![s].out = [id |-> Len(todos) + 1,
                                              todo |-> newTodo(todoValidationData(body))]]
  /\ UNCHANGED <<users, now, issued, strictQuery>>

\* createTask, second write: userModel.todos.push(todo._id), userModel.save()
\* and the response
CreateSaveOwner(s) ==
  /\ reqs[s].pc = "createSave"
  /\ users' = saveUser(reqs[s].user,
                       [users[reqs[s].user] EXCEPT !.todos = pushTodo(@, reqs[s].out.id)])
  /\ respond(s, reqs[s].body, OK, "success", reqs[s].out)
  /\ UNCHANGED <<todos, now, issued, strictQuery, createdBy>>

\* a failed second write that takes the inserted task back
CreateSaveFailsRollback(s) ==
  /\ reqs[s].pc = "createSave"
  /\ todos' = [todos EXCEPT ![reqs[s].out.id] = deletedTodo]
  /\ respond(s, reqs[s].body, INTERNAL_SERVER_ERROR, "Failed to create todo", << >>)
  /\ UNCHANGED <<users, now, issued, strictQuery, createdBy>>

\* createTask, second write rejected by the store: the catch block throws
\* the 500 and nothing is undone
CreateSaveFails(s) ==
  /\ reqs[s].pc = "createSave"
  /\ respond(s, reqs[s].body, INTERNAL_SERVER_ERROR, "Failed to create todo", << >>)
  /\ UNCHANGED <<users, todos, now, issued, strictQuery, createdBy>>

\* the process stops: the requests in flight are never answered, the store
\* keeps what was written
ProcessStops ==
  /\ \E s \in Slots : reqs[s].pc = "createSave"
  /\ reqs' = [s \in Slots |->
                IF reqs[s].pc \in {"idle", "done", "lost"}
                THEN reqs[s] ELSE [reqs[s] EXCEPT !.pc = "lost"]]
  /\ UNCHANGED <<users, todos, now, issued, strictQuery, createdBy>>

\* the process is started again: the connection of a lost request is gone
ProcessRestarts ==
  /\ \E s \in Slots : reqs[s].pc = "lost"
  /\ reqs' = [s \in Slots |-> IF reqs[s].pc = "lost" THEN Idle ELSE reqs[s]]
  /\ UNCHANGED <<users, todos, now, issued, strictQuery, createdBy>>

\* The creation specification: two registered users create tasks, one
\* request at a time, each write a step of its own, the second of which may
\* fail, and the process may stop between the two.
InitCreate ==
  /\ users = <<RegisteredUser(S_bob, E_bob), RegisteredUser(S_amy, E_amy)>>
  /\ todos = << >>
  /\ createdBy = << >>
  /\ now = DayLen
  /\ issued = {jwtSign(1, DayLen), jwtSign(2, DayLen), jwtSign(DeletedUserId, DayLen)}
  /\ strictQuery = FALSE
  /\ reqs = <<Idle>>

ReceiveCreate == \E s \in Slots : Receive(s, "createTask")

NextCreate ==
  \/ ReceiveCreate
  \/ \E s \in Slots : Authenticate(s)
  \/ \E s \in Slots : \E body \in TodoBodies : CreateInsert(s, body)
  \/ \E s \in Slots : CreateSaveOwner(s)
  \/ \E s \in Slots : CreateSaveFails(s)
  \/ ProcessStops
  \/ ProcessRestarts

SpecCreate == InitCreate /\ [][NextCreate]_vars

(* ------------------------------- C33 ---------------------------------- *)

\* the second write of the create of request s fails in this step, or the
\* process stops before it
SecondWriteLost(s) ==
  /\ reqs[s].pc = "createSave"
  /\ reqs'[s].pc \in {"done", "lost"}
  /\ users' = users

\* the tasks whose second write is still to come
BeingCreated == {reqs[s].out.id : s \in {r \in Slots : reqs[r].pc = "createSave"}}

\* the users whose todos hold the task id after the step
OwnersAfter(id) == {u \in DOMAIN users' : id \in Range(users'[u].todos)}

\* C33: creation is two writes: when the second fails, or the process stops
\* between the two, the task stays stored, in no user's todos, and the
\* request does not report success
C33_FailedCreateLeavesOrphan ==
  /\ [][\A s \in Slots :
          /\ (reqs[s].pc = "createSave" /\ reqs'[s].pc = "done" /\ reqs'[s].status = OK)
               => OwnersAfter(reqs[s].out.id) = {reqs[s].user}
          /\ SecondWriteLost(s) =>
               LET id == reqs[s].out.id
               IN  /\ id \in TodoIds'
                   /\ todos'[id] = todos[id]
                   /\ OwnersAfter(id) = {}
                   /\ reqs'[s].status \in {0, INTERNAL_SERVER_ERROR}
                   /\ reqs'[s].pc = "done" <=> reqs'[s].status # 0]_vars
  /\ [][\A id \in TodoIds \ BeingCreated :
          OwnersOf(id) = {} => (id \in TodoIds' /\ OwnersAfter(id) = {})]_vars

\* a create was answered 500 and its task is stored with no owner
C33_Witness ==
  \E s \in Slots :
    /\ Done(s)
    /\ reqs[s].route = "createTask"
    /\ reqs[s].status = INTERNAL_SERVER_ERROR
    /\ \E id \in TodoIds \ BeingCreated : OwnersOf(id) = {}

\* the process stopped between the writes of a create
C33_WitnessStopped ==
  \E s \in Slots :
    /\ reqs[s].pc = "lost"
    /\ "id" \in DOMAIN reqs[s].out
    /\ OwnersOf(reqs[s].out.id) = {}


(* ------------------------------- C34 ---------------------------------- *)

\* the delete of request s ends with success in this step
DeleteSucceeds(s) ==
  /\ reqs[s].pc = "handler"
  /\ reqs[s].route = "delete"
  /\ reqs'[s].pc = "done"
  /\ reqs'[s].status = OK

\* C34: a delete removes the task record only: every user's todos is left as
\* it was, so the id is still listed with its former owner, and the deleted
\* task is returned by no bucket query
C34_DeleteLeavesReference ==
  /\ [][\A s \in Slots :
          DeleteSucceeds(s) =>
            LET id == reqs'[s].body.id
            IN  /\ id \in TodoIds
                /\ id \notin TodoIds'
                /\ users' = users
                /\ id \in Range(users[createdBy[id]].todos)
                /\ \A j \in DOMAIN todos : j # id => todos'[j] = todos[j]]_vars
  /\ [](\A u \in UserIds : \A route \in BucketRoutes :
          Range(bucket(route, u)) \subseteq TodoIds)
  /\ [](\A s \in Slots :
          (Done(s) /\ reqs[s].route \in BucketRoutes /\ reqs[s].status = OK)
            => Range(reqs[s].out.todos) \subseteq TodoIds)

\* a bucket query of a user whose todos still list a deleted task was
\* answered with the tasks that are left
C34_Witness ==
  \E s \in Slots :
    /\ Done(s)
    /\ reqs[s].route \in BucketRoutes
    /\ reqs[s].status = OK
    /\ reqs[s].out.todos # << >>
    /\ \E i \in Range(users[reqs[s].user].todos) : i \notin TodoIds


(* ------------------------------- C35 ---------------------------------- *)

\* a logout or a password reset has been answered with success
Revoking(s) ==
  /\ Done(s)
  /\ reqs[s].route \in {"logout", "passwordReset"}
  /\ reqs[s].status = OK

\* C35: logout and passwordReset revoke nothing: a token issued before the
\* logout or the password reset of its user passes the gate afterwards at
\* every time before its expiry, the gate never comparing it with the token
\* stored on the user
C35_IssuedTokensNotRevoked ==
  /\ \A token \in issued :
       (token.id \in UserIds /\ now < token.exp) =>
         /\ authenticate(token).status = OK
         /\ authenticate(token).user = token.id
  /\ \A s \in Slots :
       Revoking(s) =>
         /\ reqs[s].token \in issued
         /\ reqs[s].token.id = reqs[s].user
         /\ reqs[s].user \in UserIds
         /\ users[reqs[s].user].accessToken # reqs[s].token

\* a password reset was answered with success, and the token it came with,
\* issued before it, would pass the gate now
C35_Witness ==
  \E s \in Slots :
    /\ Revoking(s)
    /\ reqs[s].route = "passwordReset"
    /\ reqs[s].body.oldPassword # reqs[s].body.newPassword
    /\ now < reqs[s].token.exp
    /\ authenticate(reqs[s].token).status = OK

\* the same after a logout
C35_WitnessLogout ==
  \E s \in Slots :
    /\ Revoking(s)
    /\ reqs[s].route = "logout"
    /\ now < reqs[s].token.exp
    /\ authenticate(reqs[s].token).user = reqs[s].user


(* -------------------------- refresh, on its own ----------------------- *)

\* the tokens the server signed an hour before the first midnight: expired
\* by then, and still in the hands of the clients
Earlier == {jwtSign(id, DayLen - AccessTTL) : id \in 1..MaxUsers}

\* The refresh specification: two registered users, the first holding the
\* token of a login at the first midnight; refresh requests one at a time,
\* whose body holds whatever token a client can write there.
InitRefresh ==
  /\ users = <<RegisteredUser(S_bob, E_bob), RegisteredUser(S_amy, E_amy)>>
  /\ todos = << >>
  /\ createdBy = << >>
  /\ now = DayLen
  /\ issued = {jwtSign(1, DayLen)}
  /\ strictQuery = FALSE
  /\ reqs = <<Idle>>

ReceiveRefresh == \E s \in Slots : Receive(s, "refreshToken")

NextRefresh ==
  \/ Tick
  \/ ReceiveRefresh
  \/ \E s \in Slots : Authenticate(s)
  \/ \E s \in Slots : \E token \in Presentable \cup Earlier : RefreshToken(s, token)

SpecRefresh == InitRefresh /\ [][NextRefresh]_vars

(* ------------------------------- C36 ---------------------------------- *)

\* a refresh answered for a body token that names an existing user
RefreshedFor(s) ==
  /\ Done(s)
  /\ reqs[s].route = "refreshToken"
  /\ reqs[s].user # NoUser
  /\ "token" \in DOMAIN reqs[s].body
  /\ reqs[s].body.token # NoToken
  /\ reqs[s].body.token.id \in UserIds

C36_WitnessExpired ==
  \E s \in Slots :
    /\ RefreshedFor(s)
    /\ reqs[s].body.token.id # reqs[s].user
    /\ reqs[s].body.token.sig = "good"
    /\ reqs[s].body.token.exp <= now
    /\ authenticate(reqs[s].out.token).user = reqs[s].body.token.id

\* in the refresh specification only the first user holds a token at the
\* start: a request that passed the gate as the second user came with a
\* token that a refresh handed out
C36_WitnessAccepted ==
  \E s \in Slots :
    /\ reqs[s].pc = "handler"
    /\ reqs[s].user = 2
    /\ reqs[s].token \in issued


(* ------------------------------- C37 ---------------------------------- *)

\* the handler of request s ends in this step
HandlerEnds(s, route) ==
  /\ reqs[s].pc = "handler"
  /\ reqs[s].route = route
  /\ reqs'[s].pc = "done"

\* C37: completed is monotone: a task is created with completed false
\* whatever the body says, only markDone sets it, and no operation sets it
\* back; an update never changes it
C37_CompletedMonotone ==
  [][/\ \A i \in DOMAIN todos' \ DOMAIN todos : ~todos'[i].completed
     /\ \A i \in TodoIds :
          i \in TodoIds' =>
            /\ todos[i].completed => todos'[i].completed
            /\ (~todos[i].completed /\ todos'[i].completed) =>
                 \E s \in Slots : /\ HandlerEnds(s, "markDone")
                                  /\ reqs'[s].body.id = i
                                  /\ reqs'[s].status = OK
     /\ \A s \in Slots :
          HandlerEnds(s, "update") =>
            \A i \in TodoIds : i \in TodoIds' /\ todos'[i].completed = todos[i].completed]_vars

\* an update whose body left the flag out, so that validation put false for
\* it, was applied to a completed task, which is still completed
C37_Witness ==
  \E s \in Slots :
    /\ Done(s)
    /\ reqs[s].route = "update"
    /\ reqs[s].status = OK
    /\ reqs[s].body.id \in TodoIds
    /\ todos[reqs[s].body.id].completed
    /\ "isCompleted" \notin DOMAIN reqs[s].body.body

\* an update that said completed on a task not completed left it so
C37_WitnessSaidTrue ==
  \E s \in Slots :
    /\ Done(s)
    /\ reqs[s].route = "update"
    /\ reqs[s].status = OK
    /\ reqs[s].body.id \in TodoIds
    /\ ~todos[reqs[s].body.id].completed
    /\ "isCompleted" \in DOMAIN reqs[s].body.body
    /\ reqs[s].body.body.isCompleted

====
